---- MODULE Spec2Model ----
(***************************************************************************)
(* A model of the segmented log of codepr/shoju (src/partition): the       *)
(* record codec, the memory-mapped log file, the sparse index, the segment *)
(* and the partition, with the files of the log directory as state.        *)
(***************************************************************************)
EXTENDS Integers, Sequences, FiniteSets, TLC

(***************************************************************************)
(* Bounds of the model.  max_size and offset_interval are parameters of    *)
(* Log::new / Segment::new; the model runs them at small values so that a  *)
(* segment fills, rolls and samples its index within a few appends.        *)
(***************************************************************************)
MaxSize == 160
OffsetInterval == 2
MaxAppends == 5
MaxRestarts == 1
MaxFind == 5
BigValueLen == 63
StemWidth == 2
MaxFiles == 2

(***************************************************************************)
(* Widths of the binary layout.                                            *)
(***************************************************************************)
U64_SIZE == 8
U128_SIZE == 16
U32_SIZE == 4
ENTRY_SIZE == 8

VARIABLES
    disk,                  \* the log directory: stem -> [log, index] file bytes
    segments,              \* Partition.segments
    active_segment_index,  \* Partition.active_segment_index
    pstate,                \* "up" | "panicked": the process holding the partition
    now,                   \* the wall clock, in milliseconds
    calls,                 \* history: one entry per Partition.append_record call
    found,                 \* the find_record call made last, if no other call followed it
    restarts,              \* number of re-inits from disk so far
    flushed,               \* TRUE when Partition.flush was called after the last append
    clean_restart,         \* TRUE when the last re-init came right after such a flush
    c_rec, c_tail, c_enc, c_ret, c_buf, c_out, c_pc,  \* the codec harness
    i_dir,                 \* discovery: the file names found in the log directory
    i_out,                 \* discovery: how Partition::init ended on i_dir
    i_pc                   \* discovery: "idle" | "start" | "done"

partitionVars == <<disk, segments, active_segment_index, pstate, now, calls,
                   found, restarts, flushed, clean_restart>>
codecVars == <<c_rec, c_tail, c_enc, c_ret, c_buf, c_out, c_pc>>
discoveryVars == <<i_dir, i_out, i_pc>>
vars == <<disk, segments, active_segment_index, pstate, now, calls, found,
          restarts, flushed, clean_restart, c_rec, c_tail, c_enc, c_ret, c_buf, c_out, c_pc,
          i_dir, i_out, i_pc>>

(***************************************************************************)
(* Option<Vec<u8>>                                                         *)
(***************************************************************************)
None == [some |-> FALSE, bytes |-> <<>>]
Some(b) == [some |-> TRUE, bytes |-> b]

(***************************************************************************)
(* byteorder: NetworkEndian (big-endian) integers of w bytes.              *)
(***************************************************************************)
RECURSIVE BE(_, _)
BE(n, w) == IF w = 0 THEN <<>> ELSE Append(BE(n \div 256, w - 1), n % 256)

RECURSIVE FromBE(_)
FromBE(bs) ==
    IF bs = <<>> THEN 0
    ELSE FromBE(SubSeq(bs, 1, Len(bs) - 1)) * 256 + bs[Len(bs)]

(***************************************************************************)
(* Record (src/partition/record.rs)                                        *)
(***************************************************************************)
Record(offset, timestamp, key, value) ==
    [offset |-> offset, timestamp |-> timestamp, key |-> key, value |-> value]

binary_size(r) ==
    U64_SIZE + U128_SIZE + U32_SIZE + Len(r.value) + U32_SIZE
      + (IF r.key.some THEN Len(r.key.bytes) ELSE 0)

\* Mutant of RecordWrite: an absent key writes no key_len field.
RecordWriteNoKeyLen(r) ==
    [bytes |-> BE(r.offset, U64_SIZE) \o BE(r.timestamp, U128_SIZE)
                 \o (IF r.key.some
                       THEN BE(Len(r.key.bytes), U32_SIZE) \o r.key.bytes
                       ELSE <<>>)
                 \o BE(Len(r.value), U32_SIZE) \o r.value,
     ret |-> binary_size(r)]

\* Record::write: the bytes pushed into the sink and the returned count.
RecordWrite(r) ==
    [bytes |-> BE(r.offset, U64_SIZE) \o BE(r.timestamp, U128_SIZE)
                 \o (IF r.key.some
                       THEN BE(Len(r.key.bytes), U32_SIZE) \o r.key.bytes
                       ELSE BE(0, U32_SIZE))
                 \o BE(Len(r.value), U32_SIZE) \o r.value,
     ret |-> binary_size(r)]

DecodeErr == [ok |-> FALSE, record |-> Record(0, 0, None, <<>>), consumed |-> 0]

\* Mutant of ReadExact: a plain read, content with the bytes that are left.
ReadShort(buf, pos, n) ==
    [ok |-> TRUE,
     bytes |-> SubSeq(buf, pos + 1, IF pos + n > Len(buf) THEN Len(buf) ELSE pos + n)]

\* Read::read_exact(n) on a reader holding buf, pos bytes already consumed:
\* fails (UnexpectedEof) when fewer than n bytes are left.
ReadExact(buf, pos, n) ==
    IF pos + n > Len(buf)
      THEN [ok |-> FALSE, bytes |-> <<>>]
      ELSE [ok |-> TRUE, bytes |-> SubSeq(buf, pos + 1, pos + n)]

\* Record::from_binary on a reader holding buf; consumed is the number of
\* bytes taken from the reader when the decode succeeds.
FromBinary(buf) ==
    LET o == ReadExact(buf, 0, U64_SIZE)
        t == ReadExact(buf, U64_SIZE, U128_SIZE)
        ks == ReadExact(buf, U64_SIZE + U128_SIZE, U32_SIZE)
        kpos == U64_SIZE + U128_SIZE + U32_SIZE
    IN
    IF ~o.ok \/ ~t.ok \/ ~ks.ok THEN DecodeErr
    ELSE
      LET key_size == FromBE(ks.bytes)
          kb == ReadExact(buf, kpos, key_size)
          vpos == kpos + key_size
          vs == ReadExact(buf, vpos, U32_SIZE)
      IN
      IF (key_size > 0 /\ ~kb.ok) \/ ~vs.ok THEN DecodeErr
      ELSE
        LET value_size == FromBE(vs.bytes)
            payload == ReadExact(buf, vpos + U32_SIZE, value_size)
        IN
        IF ~payload.ok THEN DecodeErr
        ELSE [ok |-> TRUE,
              record |-> Record(FromBE(o.bytes), FromBE(t.bytes),
                                IF key_size > 0 THEN Some(kb.bytes) ELSE None,
                                payload.bytes),
              consumed |-> vpos + U32_SIZE + value_size]

(***************************************************************************)
(* `as u32` keeps the low bits of the value.  The integers of TLC end at   *)
(* 2^31 - 1, so the model scales the range of u32 down to 2^30: U32_RANGE  *)
(* stands for 2^32, and an offset of U32_RANGE or more is one that does    *)
(* not fit in 32 bits.  u64 and usize stay unbounded.  The arithmetic is   *)
(* that of a build with overflow checks (cargo build, cargo test): an      *)
(* unsigned subtraction going below zero panics.                           *)
(***************************************************************************)
U32_RANGE == 2^30
AsU32(n) == n % U32_RANGE

(***************************************************************************)
(* Files.  A file is its byte sequence; set_len extends with zero bytes or *)
(* cuts.  The mmap of a file is MAP_SHARED, so the mapped bytes are the    *)
(* file's bytes and survive the process.                                   *)
(***************************************************************************)
SetLen(bytes, n) == [i \in 1..n |-> IF i <= Len(bytes) THEN bytes[i] ELSE 0]

NoFile == [log |-> <<>>, index |-> <<>>]
FileOf(d, stem) == IF stem \in DOMAIN d THEN d[stem] ELSE NoFile
PutFile(d, stem, f) == [s \in (DOMAIN d) \cup {stem} |-> IF s = stem THEN f ELSE d[s]]

\* &mmap[from..to], with Rust's bounds check: ok = FALSE is the panic.
Slice(bytes, from, to) ==
    IF from > to \/ to > Len(bytes)
      THEN [ok |-> FALSE, bytes |-> <<>>]
      ELSE [ok |-> TRUE, bytes |-> SubSeq(bytes, from + 1, to)]

(***************************************************************************)
(* Log (src/partition/log.rs)                                              *)
(***************************************************************************)
\* Mutant of LogNew: the new log counts the whole preallocated file as written.
LogNewFull(base_offset) ==
    [size |-> MaxSize, base_offset |-> base_offset, current_offset |-> base_offset]

\* Log::new: the fields after open(create) + set_len(max_size) + mmap.
LogNew(base_offset) ==
    [size |-> 0, base_offset |-> base_offset, current_offset |-> base_offset]

\* The loop of Log::load_from_disk: decode records until the first error.
RECURSIVE CountRecords(_)
CountRecords(buf) ==
    LET d == FromBinary(buf) IN
    IF d.ok THEN 1 + CountRecords(SubSeq(buf, d.consumed + 1, Len(buf))) ELSE 0

\* Mutant of LogLoadFromDisk: the records of the file are not counted.
LogLoadNoCount(bytes, base_offset) ==
    [size |-> Len(bytes), base_offset |-> base_offset, current_offset |-> base_offset]

\* Log::load_from_disk: size is the file's length, current_offset the count.
LogLoadFromDisk(bytes, base_offset) ==
    [size |-> Len(bytes), base_offset |-> base_offset,
     current_offset |-> base_offset + CountRecords(bytes)]

\* Mutants of can_fit: the bytes already written are ignored; a record that
\* exactly fills the remaining space is refused.
can_fit_ignores_size(log, buffer_size) == MaxSize >= buffer_size
can_fit_strict(log, buffer_size) == (MaxSize - log.size) > buffer_size

\* Mutant of can_fit: every record is taken to fit.
can_fit_always(log, buffer_size) == TRUE

can_fit(log, buffer_size) == (MaxSize - log.size) >= buffer_size

\* Mutant of LogAppendRecord: the offset returned is the log's next offset
\* after the append, not the offset of the record written.
LogAppendRecordReturnsNext(log, bytes, record_data) ==
    LET data_size == Len(record_data)
        window == Slice(bytes, log.size, log.size + data_size)
    IN
    IF ~window.ok
      THEN [ok |-> FALSE, log |-> log, bytes |-> bytes, last_offset |-> 0, log_size |-> 0]
      ELSE [ok |-> TRUE,
            log |-> [log EXCEPT !.size = @ + data_size, !.current_offset = @ + 1],
            bytes |-> [i \in 1..Len(bytes) |->
                         IF i > log.size /\ i <= log.size + data_size
                           THEN record_data[i - log.size] ELSE bytes[i]],
            last_offset |-> log.current_offset + 1,
            log_size |-> AsU32(log.size)]

\* Mutant of LogAppendRecord: the position returned is the one after the
\* written record.
LogAppendRecordReturnsEnd(log, bytes, record_data) ==
    LET data_size == Len(record_data)
        window == Slice(bytes, log.size, log.size + data_size)
    IN
    IF ~window.ok
      THEN [ok |-> FALSE, log |-> log, bytes |-> bytes, last_offset |-> 0, log_size |-> 0]
      ELSE [ok |-> TRUE,
            log |-> [log EXCEPT !.size = @ + data_size, !.current_offset = @ + 1],
            bytes |-> [i \in 1..Len(bytes) |->
                         IF i > log.size /\ i <= log.size + data_size
                           THEN record_data[i - log.size] ELSE bytes[i]],
            last_offset |-> log.current_offset,
            log_size |-> AsU32(log.size + data_size)]

\* Log::append_record: write into mmap[size..size+len], advance size and
\* current_offset, return (offset assigned, position written at).
LogAppendRecord(log, bytes, record_data) ==
    LET data_size == Len(record_data)
        window == Slice(bytes, log.size, log.size + data_size)
    IN
    IF ~window.ok
      THEN [ok |-> FALSE, log |-> log, bytes |-> bytes, last_offset |-> 0, log_size |-> 0]
      ELSE [ok |-> TRUE,
            log |-> [log EXCEPT !.size = @ + data_size, !.current_offset = @ + 1],
            bytes |-> [i \in 1..Len(bytes) |->
                         IF i > log.size /\ i <= log.size + data_size
                           THEN record_data[i - log.size] ELSE bytes[i]],
            last_offset |-> log.current_offset,
            log_size |-> AsU32(log.size)]

(***************************************************************************)
(* Index (src/partition/index.rs)                                          *)
(***************************************************************************)
Position(relative_offset, position) ==
    [relative_offset |-> relative_offset, position |-> position]

\* Position::write / Position::from_binary
PositionWrite(p) == BE(p.relative_offset, U32_SIZE) \o BE(p.position, U32_SIZE)
PositionFromBinary(c) ==
    Position(FromBE(SubSeq(c, 1, U32_SIZE)), FromBE(SubSeq(c, U32_SIZE + 1, 2 * U32_SIZE)))

IndexNew(base_offset) == [size |-> 0, base_offset |-> base_offset]
IndexLoadFromDisk(bytes, base_offset) == [size |-> Len(bytes), base_offset |-> base_offset]

\* Mutant of IndexAppendPosition: the entry holds the record's offset, not
\* the offset relative to the segment's base_offset.
IndexAppendAbsolute(index, bytes, offset, log_size) ==
    [ok |-> offset >= index.base_offset,
     index |-> [index EXCEPT !.size = @ + ENTRY_SIZE],
     bytes |-> bytes \o PositionWrite(Position(AsU32(offset), log_size))]

\* Index::append_position: one entry appended to the file, size += ENTRY_SIZE.
IndexAppendPosition(index, bytes, offset, log_size) ==
    LET relative_offset == offset - index.base_offset IN
    [ok |-> relative_offset >= 0,
     index |-> [index EXCEPT !.size = @ + ENTRY_SIZE],
     bytes |-> bytes \o PositionWrite(Position(AsU32(relative_offset), log_size))]

\* slice::binary_search_by with the comparator of find_offset / find_record,
\* key(x).cmp(target).then(Less): Less for key <= target, Greater otherwise,
\* never Equal, so the search always ends in Err(left).
RECURSIVE BinarySearchLeft(_, _, _, _)
BinarySearchLeft(keys, target, left, right) ==
    IF left >= right THEN left
    ELSE LET mid == left + ((right - left) \div 2) IN
         IF keys[mid + 1] <= target
           THEN BinarySearchLeft(keys, target, mid + 1, right)
           ELSE BinarySearchLeft(keys, target, left, mid)

\* mmap[starting_offset..].chunks(8) decoded into positions
Chunks(bytes) ==
    [i \in 1..(Len(bytes) \div ENTRY_SIZE) |->
        PositionFromBinary(SubSeq(bytes, (i - 1) * ENTRY_SIZE + 1, i * ENTRY_SIZE))]

\* Mutant of Punctual: the position handed to the reader is the start of the
\* log, not the sample's position.
PunctualFromStart(p) ==
    [kind |-> "Punctual", begin |-> Position(p.relative_offset, 0),
     end |-> Position(p.relative_offset, 0)]

Punctual(p) == [kind |-> "Punctual", begin |-> p, end |-> p]
\* Mutant of Around: the two positions change places.
AroundSwapped(p, q) == [kind |-> "Around", begin |-> q, end |-> p]

Around(p, q) == [kind |-> "Around", begin |-> p, end |-> q]
FindPanic == [kind |-> "panic", begin |-> Position(0, 0), end |-> Position(0, 0)]

\* Index::find_offset
IndexFindOffset(index, bytes, offset) ==
    IF index.size = 0 THEN Around(Position(0, 0), Position(0, 0))
    ELSE IF offset < index.base_offset THEN FindPanic
    ELSE
      LET relative_offset == AsU32(offset - index.base_offset)
          slot == (relative_offset \div OffsetInterval) * ENTRY_SIZE
          starting_offset == IF slot = 0 THEN slot ELSE slot - ENTRY_SIZE
          window == Slice(bytes, starting_offset, Len(bytes))
      IN
      IF ~window.ok THEN FindPanic
      ELSE
        LET positions == Chunks(window.bytes)
            keys == [i \in 1..Len(positions) |-> positions[i].relative_offset]
            off == BinarySearchLeft(keys, relative_offset, 0, Len(positions))
        IN
        IF off = 0
          THEN IF Len(positions) = 0 \/ positions[1].relative_offset < OffsetInterval
                 THEN FindPanic
                 ELSE Around(Position(positions[1].relative_offset - OffsetInterval, 0),
                             positions[1])
          ELSE IF relative_offset % OffsetInterval = 0 \/ off = Len(positions)
                 THEN Punctual(positions[off])
                 ELSE Around(positions[off], positions[off + 1])

(***************************************************************************)
(* Segment (src/partition/segment.rs)                                      *)
(***************************************************************************)
\* Mutant of SegmentNew: sampling counts from offset 0, not from base_offset.
SegmentNewPrevZero(base_offset, active) ==
    [log |-> LogNew(base_offset), index |-> IndexNew(base_offset),
     base_offset |-> base_offset, prev_offset |-> 0, active |-> active]

\* Mutant of SegmentNew: the active flag asked for is dropped.
SegmentNewSealed(base_offset, active) ==
    [log |-> LogNew(base_offset), index |-> IndexNew(base_offset),
     base_offset |-> base_offset, prev_offset |-> base_offset, active |-> FALSE]

\* Segment::new: the struct; its two files are created by SegmentNewFiles.
SegmentNew(base_offset, active) ==
    [log |-> LogNew(base_offset), index |-> IndexNew(base_offset),
     base_offset |-> base_offset, prev_offset |-> base_offset, active |-> active]

\* The files after Log::new (open with create, set_len(max_size)) and
\* Index::new (open with create) for this stem.
SegmentNewFiles(d, base_offset) ==
    LET f == FileOf(d, base_offset) IN
    PutFile(d, base_offset, [log |-> SetLen(f.log, MaxSize), index |-> f.index])

\* Segment::load_from_disk
SegmentLoadFromDisk(f, base_offset, active) ==
    LET log == LogLoadFromDisk(f.log, base_offset)
        n == log.current_offset
        prev_offset == IF n = 0 THEN 0
                       ELSE IF n < OffsetInterval THEN n
                       ELSE IF n % OffsetInterval = 0 THEN n - OffsetInterval
                       ELSE n - (n % OffsetInterval)
    IN [log |-> log, index |-> IndexLoadFromDisk(f.index, base_offset),
        base_offset |-> base_offset, prev_offset |-> prev_offset, active |-> active]

latest_offset(seg) == seg.log.current_offset
\* Mutant of seal: sealing also forgets where the index was sampled last.
sealResetsPrev(seg) == [seg EXCEPT !.active = FALSE, !.prev_offset = 0]

seal(seg) == [seg EXCEPT !.active = FALSE]

\* Mutant of SegmentAppendRecord: the offset of the refused record is spent,
\* the log's current_offset moving on although nothing was written.
SegmentAppendRecordSpendsOffset(seg, f, key, value, timestamp) ==
    LET record == Record(latest_offset(seg), timestamp, key, value) IN
    IF ~can_fit(seg.log, binary_size(record))
      THEN [status |-> "FullSegment",
            seg |-> [seg EXCEPT !.log.current_offset = @ + 1],
            file |-> f, record |-> record, flushes |-> <<>>]
      ELSE
        LET buffer == RecordWrite(record).bytes
            a == LogAppendRecord(seg.log, f.log, buffer)
        IN
        IF ~a.ok \/ a.last_offset < seg.prev_offset
          THEN [status |-> "panic", seg |-> seg, file |-> f, record |-> record,
                flushes |-> <<>>]
          ELSE
            IF a.last_offset - seg.prev_offset >= OffsetInterval
              THEN LET ip == IndexAppendPosition(seg.index, f.index,
                                                 AsU32(a.last_offset), a.log_size)
                   IN IF ~ip.ok
                        THEN [status |-> "panic",
                              seg |-> [seg EXCEPT !.log = a.log],
                              file |-> [log |-> a.bytes, index |-> f.index],
                              record |-> record,
                              flushes |-> <<>>]
                        ELSE [status |-> "Ok",
                              seg |-> [seg EXCEPT !.log = a.log, !.index = ip.index,
                                                  !.prev_offset = a.last_offset],
                              file |-> [log |-> a.bytes, index |-> ip.bytes],
                              record |-> record,
                              flushes |-> <<"log", "index">>]
              ELSE [status |-> "Ok",
                    seg |-> [seg EXCEPT !.log = a.log],
                    file |-> [log |-> a.bytes, index |-> f.index],
                    record |-> record,
                    flushes |-> <<"log", "index">>]

\* Segment::append_record.  status: "Ok", "FullSegment", or "panic" (the
\* bounds check of the mmap slice, or an unsigned subtraction going below 0).
\* flushes: the flush requests the call makes, in order (self.log.flush(),
\* self.index.flush() after the write and the sampling).
SegmentAppendRecord(seg, f, key, value, timestamp) ==
    LET record == Record(latest_offset(seg), timestamp, key, value) IN
    IF ~can_fit(seg.log, binary_size(record))
      THEN [status |-> "FullSegment", seg |-> seg, file |-> f, record |-> record,
            flushes |-> <<>>]
      ELSE
        LET buffer == RecordWrite(record).bytes
            a == LogAppendRecord(seg.log, f.log, buffer)
        IN
        IF ~a.ok \/ a.last_offset < seg.prev_offset
          THEN [status |-> "panic", seg |-> seg, file |-> f, record |-> record,
                flushes |-> <<>>]
          ELSE
            IF a.last_offset - seg.prev_offset >= OffsetInterval
              THEN LET ip == IndexAppendPosition(seg.index, f.index,
                                                 AsU32(a.last_offset), a.log_size)
                   IN IF ~ip.ok
                        THEN [status |-> "panic",
                              seg |-> [seg EXCEPT !.log = a.log],
                              file |-> [log |-> a.bytes, index |-> f.index],
                              record |-> record,
                              flushes |-> <<>>]
                        ELSE [status |-> "Ok",
                              seg |-> [seg EXCEPT !.log = a.log, !.index = ip.index,
                                                  !.prev_offset = a.last_offset],
                              file |-> [log |-> a.bytes, index |-> ip.bytes],
                              record |-> record,
                              flushes |-> <<"log", "index">>]
              ELSE [status |-> "Ok",
                    seg |-> [seg EXCEPT !.log = a.log],
                    file |-> [log |-> a.bytes, index |-> f.index],
                    record |-> record,
                    flushes |-> <<"log", "index">>]

ReadErr == [kind |-> "Err", record |-> Record(0, 0, None, <<>>), decoded |-> 0]
ReadPanic == [kind |-> "panic", record |-> Record(0, 0, None, <<>>), decoded |-> 0]
ReadOk(r, n) == [kind |-> "Ok", record |-> r, decoded |-> n]

\* The loop of the Punctual arm: decode on while bytes remain and the offset
\* has not been met; the record decoded last is returned whatever its offset.
RECURSIVE ScanPunctual(_, _, _, _, _)
ScanPunctual(buf, remaining_bytes, record, offset, decoded) ==
    IF remaining_bytes > 0 /\ record.offset # offset
      THEN LET d == FromBinary(buf) IN
           IF ~d.ok THEN ReadErr
           ELSE IF remaining_bytes < binary_size(d.record) THEN ReadPanic
           ELSE ScanPunctual(SubSeq(buf, d.consumed + 1, Len(buf)),
                             remaining_bytes - binary_size(d.record),
                             d.record, offset, decoded + 1)
      ELSE ReadOk(record, decoded)

\* The loop of the Around arm: decode offset_count records, return the last.
RECURSIVE ScanAround(_, _, _)
ScanAround(buf, offset_count, decoded) ==
    LET d == FromBinary(buf) IN
    IF ~d.ok THEN ReadErr
    ELSE IF offset_count = 1 THEN ReadOk(d.record, decoded + 1)
    ELSE ScanAround(SubSeq(buf, d.consumed + 1, Len(buf)), offset_count - 1, decoded + 1)

\* Segment::read_at.  The two-position arm is matched in segment.rs under the
\* name Ahead; index.rs defines that variant as Around.
SegmentReadAt(seg, f, offset) ==
    LET fr == IndexFindOffset(seg.index, f.index, AsU32(offset)) IN
    IF fr.kind = "panic" THEN ReadPanic
    ELSE IF fr.kind = "Punctual"
      THEN LET slice == Slice(f.log, fr.begin.position, seg.log.size) IN
           IF ~slice.ok THEN ReadPanic
           ELSE LET d == FromBinary(slice.bytes) IN
                IF ~d.ok THEN ReadErr
                ELSE IF d.record.offset = offset THEN ReadOk(d.record, 1)
                ELSE ScanPunctual(SubSeq(slice.bytes, d.consumed + 1, Len(slice.bytes)),
                                  seg.log.size - fr.begin.position - binary_size(d.record),
                                  d.record, offset, 1)
      ELSE IF offset < seg.base_offset + fr.begin.relative_offset THEN ReadPanic
           ELSE LET offset_count == (offset - seg.base_offset - fr.begin.relative_offset) + 1
                    slice == Slice(f.log, fr.begin.position, fr.end.position)
                IN IF ~slice.ok THEN ReadPanic
                   ELSE ScanAround(slice.bytes, offset_count, 0)

(***************************************************************************)
(* Partition (src/partition/mod.rs)                                        *)
(***************************************************************************)
\* Mutant of SortedStems: the stems are taken in the opposite order, as one
\* of the orders the HashSet may give when paths.sort() is left out.
RECURSIVE StemsUnsorted(_)
StemsUnsorted(S) ==
    IF S = {} THEN <<>>
    ELSE LET m == CHOOSE x \in S : \A y \in S : x >= y
         IN <<m>> \o StemsUnsorted(S \ {m})

\* paths.sort(): the stems are 20-digit zero-padded, so the string order is
\* the numeric order.
RECURSIVE SortedStems(_)
SortedStems(S) ==
    IF S = {} THEN <<>>
    ELSE LET m == CHOOSE x \in S : \A y \in S : x <= y
         IN <<m>> \o SortedStems(S \ {m})

\* Partition::init on the directory d: the partition and the directory after.
PartitionInit(d) ==
    IF DOMAIN d = {}
      THEN [segments |-> <<SegmentNew(0, TRUE)>>,
            active_segment_index |-> 0,
            disk |-> SegmentNewFiles(d, 0)]
      ELSE
        LET paths == SortedStems(DOMAIN d) IN
        [segments |-> [i \in 1..Len(paths) |->
                          SegmentLoadFromDisk(d[paths[i]], paths[i], FALSE)],
         active_segment_index |-> Len(paths) - 1,
         disk |-> [stem \in DOMAIN d |->
                      [log |-> SetLen(d[stem].log, MaxSize), index |-> d[stem].index]]]

\* Partition::active_segment
active_segment(segs, asi) == segs[asi + 1]

\* Mutant of NewActiveSegment: the new segment starts at the old segment's
\* base_offset instead of its latest_offset.
NewActiveSegmentAtBase(segs, asi, d) ==
    LET base == segs[asi + 1].base_offset IN
    [segments |-> Append([segs EXCEPT ![asi + 1] = seal(@)], SegmentNew(base, TRUE)),
     active_segment_index |-> asi + 1,
     disk |-> SegmentNewFiles(d, base)]

\* Partition::new_active_segment: the segment sequence, the index of the
\* active one and the directory after the roll.
NewActiveSegment(segs, asi, d) ==
    LET latest == latest_offset(segs[asi + 1]) IN
    [segments |-> Append([segs EXCEPT ![asi + 1] = seal(@)], SegmentNew(latest, TRUE)),
     active_segment_index |-> asi + 1,
     disk |-> SegmentNewFiles(d, latest)]

\* Mutant of PartitionRoute: every offset is read from the active segment.
PartitionRouteActive(segs, asi, offset) == asi + 1

\* The segment (1-based position in segs) Partition::find_record reads.
PartitionRoute(segs, asi, offset) ==
    IF offset = active_segment(segs, asi).base_offset THEN asi + 1
    ELSE IF Len(segs) > 0 /\ offset < segs[1].base_offset THEN asi + 1
    ELSE LET bases == [i \in 1..Len(segs) |-> segs[i].base_offset]
             n == BinarySearchLeft(bases, offset, 0, Len(segs))
         IN IF n = 0 THEN (IF Len(segs) = 0 THEN asi + 1 ELSE 1) ELSE n

\* Partition::find_record
PartitionFindRecord(segs, asi, d, offset) ==
    LET i == PartitionRoute(segs, asi, offset) IN
    SegmentReadAt(segs[i], d[segs[i].base_offset], offset)

(***************************************************************************)
(* The caller's inputs.                                                    *)
(***************************************************************************)
Zeros(n) == [i \in 1..n |-> 0]
AppendInputs ==
    { [key |-> None, value |-> <<>>],
      [key |-> Some(<<7>>), value |-> [i \in 1..BigValueLen |-> i]],
      [key |-> None, value |-> Zeros(MaxSize)] }   \* larger than any segment

NoFind == [offset |-> 0, kind |-> "none", record |-> Record(0, 0, None, <<>>),
           decoded |-> 0, routed |-> 0]

CodecIdle ==
    /\ c_rec = Record(0, 0, None, <<>>)
    /\ c_tail = <<>>
    /\ c_enc = <<>>
    /\ c_ret = 0
    /\ c_buf = <<>>
    /\ c_out = DecodeErr
    /\ c_pc = "idle"

\* No discovery is being followed.
NoOutcome == [kind |-> "none", bases |-> <<>>]
DiscoveryIdle ==
    /\ i_dir = {}
    /\ i_out = NoOutcome
    /\ i_pc = "idle"

\* The state after Partition::init on an empty log directory.
PartitionFresh ==
    LET p == PartitionInit(<<>>) IN
    /\ disk = p.disk
    /\ segments = p.segments
    /\ active_segment_index = p.active_segment_index
    /\ pstate = "up"
    /\ now = 1
    /\ calls = <<>>
    /\ found = NoFind
    /\ restarts = 0
    /\ flushed = FALSE
    /\ clean_restart = FALSE

Init == PartitionFresh /\ CodecIdle /\ DiscoveryIdle

\* Partition::append_record(key, value)
AppendRecord(in) ==
    /\ pstate = "up"
    /\ Len(calls) < MaxAppends
    /\ LET a == active_segment(segments, active_segment_index)
           r1 == SegmentAppendRecord(a, disk[a.base_offset], in.key, in.value, now)
           rolled == NewActiveSegment(segments, active_segment_index, disk)
           b == active_segment(rolled.segments, rolled.active_segment_index)
           r2 == SegmentAppendRecord(b, rolled.disk[b.base_offset], in.key, in.value, now)
           call(status, r) ==
               [key |-> in.key, value |-> in.value, status |-> status,
                offset |-> r.record.offset, timestamp |-> r.record.timestamp,
                epoch |-> restarts, flushes |-> r.flushes]
       IN
       IF r1.status = "Ok"
         THEN /\ segments' = [segments EXCEPT ![active_segment_index + 1] = r1.seg]
              /\ disk' = [disk EXCEPT ![a.base_offset] = r1.file]
              /\ calls' = Append(calls, call("Ok", r1))
              /\ UNCHANGED <<active_segment_index, pstate>>
       ELSE IF r1.status = "FullSegment"
         THEN IF r2.status = "Ok"
                THEN /\ segments' = [rolled.segments EXCEPT
                                       ![rolled.active_segment_index + 1] = r2.seg]
                     /\ active_segment_index' = rolled.active_segment_index
                     /\ disk' = [rolled.disk EXCEPT ![b.base_offset] = r2.file]
                     /\ calls' = Append(calls, call("Ok", r2))
                     /\ UNCHANGED pstate
                ELSE /\ segments' = rolled.segments      \* Err(_) => panic!()
                     /\ active_segment_index' = rolled.active_segment_index
                     /\ disk' = rolled.disk
                     /\ calls' = Append(calls, call(IF r2.status = "FullSegment"
                                                      THEN "fatal" ELSE "out_of_bounds",
                                                    r2))
                     /\ pstate' = "panicked"
         ELSE /\ calls' = Append(calls, call("out_of_bounds", r1))
              /\ pstate' = "panicked"
              /\ UNCHANGED <<segments, active_segment_index, disk>>
    /\ now' = now + 1
    /\ flushed' = FALSE
    /\ found' = NoFind
    /\ UNCHANGED <<restarts, clean_restart>>
    /\ UNCHANGED codecVars
    /\ UNCHANGED discoveryVars

\* Partition::find_record(offset).  A find_record leaves the partition and
\* its files as they are, so the model follows one find_record at a time: the
\* next one is looked at from the state found was cleared in.
FindRecord(offset) ==
    /\ pstate = "up"
    /\ found = NoFind
    /\ LET r == PartitionFindRecord(segments, active_segment_index, disk, offset) IN
       /\ found' = [offset |-> offset, kind |-> r.kind, record |-> r.record,
                    decoded |-> r.decoded,
                    routed |-> PartitionRoute(segments, active_segment_index, offset)]
       /\ pstate' = IF r.kind = "panic" THEN "panicked" ELSE pstate
    /\ UNCHANGED <<disk, segments, active_segment_index, now, calls, restarts, flushed,
                   clean_restart>>
    /\ UNCHANGED codecVars
    /\ UNCHANGED discoveryVars

\* Partition::flush: flush_async of the active log's map and flush of the
\* active index file; the bytes of a shared map are the file's already.
Flush ==
    /\ pstate = "up"
    /\ flushed' = TRUE
    /\ found' = NoFind
    /\ UNCHANGED <<disk, segments, active_segment_index, pstate, now, calls, restarts,
                   clean_restart>>
    /\ UNCHANGED codecVars
    /\ UNCHANGED discoveryVars

\* The partition is dropped (or its process has panicked) and Partition::init
\* runs again on the same directory.
Restart ==
    /\ restarts < MaxRestarts
    /\ LET p == PartitionInit(disk) IN
       /\ disk' = p.disk
       /\ segments' = p.segments
       /\ active_segment_index' = p.active_segment_index
    /\ pstate' = "up"
    /\ restarts' = restarts + 1
    /\ found' = NoFind
    /\ clean_restart' = (flushed /\ pstate = "up")
    /\ UNCHANGED <<now, calls, flushed>>
    /\ UNCHANGED codecVars
    /\ UNCHANGED discoveryVars

Next ==
    \/ \E in \in AppendInputs : AppendRecord(in)
    \/ \E offset \in 0..MaxFind : FindRecord(offset)
    \/ Flush
    \/ Restart

Spec == Init /\ [][Next]_vars

(***************************************************************************)
(* The codec on its own: a record is written into an empty sink, further   *)
(* bytes may follow it in the source (or the source is cut short), and the *)
(* source is decoded.                                                      *)
(***************************************************************************)
CodecKeys == {None, Some(<<>>), Some(<<7>>), Some(<<7, 8>>)}
CodecValues == {<<>>, <<1>>, <<1, 2>>}
CodecRecords ==
    {Record(o, t, k, v) : o \in {0, 258}, t \in {1, 259}, k \in CodecKeys, v \in CodecValues}
CodecTails ==
    {<<>>, <<9, 0>>, RecordWrite(Record(1, 2, Some(<<5>>), <<6>>)).bytes}

CodecInit ==
    /\ PartitionFresh
    /\ DiscoveryIdle
    /\ c_rec \in CodecRecords
    /\ c_tail \in CodecTails
    /\ c_enc = <<>>
    /\ c_ret = 0
    /\ c_buf = <<>>
    /\ c_out = DecodeErr
    /\ c_pc = "new"

\* record.write(&mut buffer) into an empty Vec; the source to decode is the
\* written bytes followed by c_tail.
CodecWrite ==
    /\ c_pc = "new"
    /\ c_enc' = RecordWrite(c_rec).bytes
    /\ c_ret' = RecordWrite(c_rec).ret
    /\ c_buf' = c_enc' \o c_tail
    /\ c_pc' = "written"
    /\ UNCHANGED <<c_rec, c_tail, c_out>>
    /\ UNCHANGED partitionVars
    /\ UNCHANGED discoveryVars

\* The source ends before the record is complete.
CodecTruncate ==
    /\ c_pc = "written"
    /\ \E n \in 0..(Len(c_enc) - 1) : c_buf' = SubSeq(c_enc, 1, n)
    /\ c_pc' = "truncated"
    /\ UNCHANGED <<c_rec, c_tail, c_enc, c_ret, c_out>>
    /\ UNCHANGED partitionVars
    /\ UNCHANGED discoveryVars

\* Record::from_binary(&mut reader) on the source.
CodecRead ==
    /\ c_pc \in {"written", "truncated"}
    /\ c_out' = FromBinary(c_buf)
    /\ c_pc' = IF c_pc = "written" THEN "read" ELSE "read_truncated"
    /\ UNCHANGED <<c_rec, c_tail, c_enc, c_ret, c_buf>>
    /\ UNCHANGED partitionVars
    /\ UNCHANGED discoveryVars

CodecNext == CodecWrite \/ CodecTruncate \/ CodecRead

CodecSpec == CodecInit /\ [][CodecNext]_vars

(***************************************************************************)
(* Discovery: the first half of Partition::init, on the names found in the *)
(* log directory.  A name is a stem (a string, here a sequence of character *)
(* codes) and an extension; a segment with base_offset b is the two files   *)
(* format!("{:020}", b) + ".log" and ".index".                              *)
(***************************************************************************)
Digits == 48..57                       \* '0' .. '9'
Plus == 43                             \* '+'

\* str::parse::<u64>: an optional '+', then one or more decimal digits (the
\* stems of the model are too short to overflow a u64).
ParseU64(s) ==
    LET body == IF s # <<>> /\ s[1] = Plus THEN Tail(s) ELSE s
        F[i \in 0..Len(body)] == IF i = 0 THEN 0 ELSE 10 * F[i - 1] + (body[i] - 48)
    IN
    IF body = <<>> \/ \E i \in 1..Len(body) : body[i] \notin Digits
      THEN [ok |-> FALSE, value |-> 0]
      ELSE [ok |-> TRUE, value |-> F[Len(body)]]

\* format!("{:0w$}", n) with w = StemWidth: decimal digits, zero-padded.
RECURSIVE Decimal(_)
Decimal(n) == IF n < 10 THEN <<48 + n>> ELSE Append(Decimal(n \div 10), 48 + (n % 10))
FormatStem(n) ==
    LET d == Decimal(n) IN
    [i \in 1..(StemWidth - Len(d)) |-> 48] \o d

\* The order of String: byte-wise lexicographic.
LexLess(a, b) ==
    \E k \in 1..(Len(b)) :
        /\ \A j \in 1..(k - 1) : j <= Len(a) /\ a[j] = b[j]
        /\ \/ k = Len(a) + 1
           \/ k <= Len(a) /\ a[k] < b[k]

\* paths.sort() of the de-duplicated stems
RECURSIVE SortedPaths(_)
SortedPaths(S) ==
    IF S = {} THEN <<>>
    ELSE LET m == CHOOSE x \in S : \A y \in S \ {x} : LexLess(x, y)
         IN <<m>> \o SortedPaths(S \ {m})

\* The map over the sorted stems: parse with expect, load with unwrap; the
\* first stem that fails ends init with that panic.  load_from_disk opens the
\* .log and the .index of the parsed base_offset without creating them.
RECURSIVE LoadAll(_, _, _)
LoadAll(paths, dir, bases) ==
    IF paths = <<>> THEN [kind |-> "Ok", bases |-> bases]
    ELSE LET p == ParseU64(Head(paths))
             stem == FormatStem(p.value)
         IN IF ~p.ok
              THEN [kind |-> "panic: Log file name not compliant", bases |-> <<>>]
            ELSE IF ~({[stem |-> stem, ext |-> "log"], [stem |-> stem, ext |-> "index"]}
                        \subseteq dir)
              THEN [kind |-> "panic: unwrap on Err", bases |-> <<>>]
            ELSE LoadAll(Tail(paths), dir, Append(bases, p.value))

\* Partition::init as far as the outcome goes: Ok with the base_offsets of the
\* segments, or the panic that ended it.
PartitionInitOutcome(dir) ==
    LET stems == {f.stem : f \in dir} IN
    IF stems = {} THEN [kind |-> "Ok", bases |-> <<0>>]
    ELSE LoadAll(SortedPaths(stems), dir, <<>>)

StemChars == {48, 49, 120, Plus}       \* '0', '1', 'x', '+'
Stems == UNION {[1..n -> StemChars] : n \in 1..StemWidth}
FileNames == {[stem |-> s, ext |-> e] : s \in Stems, e \in {"log", "index"}}
RECURSIVE DirectoriesUpTo(_)
DirectoriesUpTo(n) ==
    IF n = 0 THEN {{}}
    ELSE LET smaller == DirectoriesUpTo(n - 1)
         IN smaller \cup {D \cup {f} : D \in smaller, f \in FileNames}
Directories == DirectoriesUpTo(MaxFiles)

DiscoveryInit ==
    /\ PartitionFresh
    /\ CodecIdle
    /\ i_dir \in Directories
    /\ i_out = NoOutcome
    /\ i_pc = "start"

\* Partition::init()
Discover ==
    /\ i_pc = "start"
    /\ i_out' = PartitionInitOutcome(i_dir)
    /\ i_pc' = "done"
    /\ UNCHANGED i_dir
    /\ UNCHANGED partitionVars
    /\ UNCHANGED codecVars

DiscoveryNext == Discover

DiscoverySpec == DiscoveryInit /\ [][DiscoveryNext]_vars

(***************************************************************************)
(* One segment driven through its own interface: segments holds the        *)
(* segment made by Segment::new(dir, 0, interval, true), disk its two      *)
(* files, calls the Segment::append_record calls made on it.               *)
(***************************************************************************)
SegmentInit == PartitionFresh /\ CodecIdle /\ DiscoveryIdle

\* Segment::append_record(key, value) on the segment
SegAppend(in) ==
    /\ Len(calls) < MaxAppends
    /\ LET seg == segments[1]
           r == SegmentAppendRecord(seg, disk[seg.base_offset], in.key, in.value, now)
       IN
       /\ segments' = <<r.seg>>
       /\ disk' = [disk EXCEPT ![seg.base_offset] = r.file]
       /\ calls' = Append(calls, [key |-> in.key, value |-> in.value, status |-> r.status,
                                  offset |-> r.record.offset,
                                  timestamp |-> r.record.timestamp, epoch |-> restarts,
                                  flushes |-> r.flushes])
    /\ now' = now + 1
    /\ UNCHANGED <<active_segment_index, pstate, found, restarts, flushed, clean_restart>>
    /\ UNCHANGED codecVars
    /\ UNCHANGED discoveryVars

\* Segment::seal()
SegSeal ==
    /\ segments[1].active
    /\ segments' = <<seal(segments[1])>>
    /\ UNCHANGED <<disk, active_segment_index, pstate, now, calls, found, restarts,
                   flushed, clean_restart>>
    /\ UNCHANGED codecVars
    /\ UNCHANGED discoveryVars

SegmentNext ==
    \/ \E in \in AppendInputs : SegAppend(in)
    \/ SegSeal

SegmentSpec == SegmentInit /\ [][SegmentNext]_vars

(***************************************************************************)
(* Appends with an I/O error: the flush of the log's map at the end of      *)
(* Segment::append_record (segment.rs:108, Log::flush) fails, after the     *)
(* record was put into the map and the index was sampled.                   *)
(***************************************************************************)
\* Partition::append_record(key, value) in which the segment append that
\* writes the record returns Err(SegmentError::Io): on the first attempt the
\* partition returns Err(e); on the retry after a roll the arm Err(_) of the
\* inner match panics.
AppendRecordFlushFails(in) ==
    /\ pstate = "up"
    /\ Len(calls) < MaxAppends
    /\ LET a == active_segment(segments, active_segment_index)
           r1 == SegmentAppendRecord(a, disk[a.base_offset], in.key, in.value, now)
           rolled == NewActiveSegment(segments, active_segment_index, disk)
           b == active_segment(rolled.segments, rolled.active_segment_index)
           r2 == SegmentAppendRecord(b, rolled.disk[b.base_offset], in.key, in.value, now)
           call(status, record) ==
               [key |-> in.key, value |-> in.value, status |-> status,
                offset |-> record.offset, timestamp |-> record.timestamp,
                epoch |-> restarts, flushes |-> <<"log">>]
       IN
       /\ r1.status = "Ok" \/ (r1.status = "FullSegment" /\ r2.status = "Ok")
       /\ IF r1.status = "Ok"
            THEN /\ segments' = [segments EXCEPT ![active_segment_index + 1] = r1.seg]
                 /\ disk' = [disk EXCEPT ![a.base_offset] = r1.file]
                 /\ calls' = Append(calls, call("Err(Io)", r1.record))
                 /\ UNCHANGED <<active_segment_index, pstate>>
            ELSE /\ segments' = [rolled.segments EXCEPT
                                   ![rolled.active_segment_index + 1] = r2.seg]
                 /\ active_segment_index' = rolled.active_segment_index
                 /\ disk' = [rolled.disk EXCEPT ![b.base_offset] = r2.file]
                 /\ calls' = Append(calls, call("panic(Io)", r2.record))
                 /\ pstate' = "panicked"
    /\ now' = now + 1
    /\ flushed' = FALSE
    /\ found' = NoFind
    /\ UNCHANGED <<restarts, clean_restart>>
    /\ UNCHANGED codecVars
    /\ UNCHANGED discoveryVars

FaultNext ==
    \/ \E in \in AppendInputs : AppendRecord(in)
    \/ \E in \in AppendInputs : AppendRecordFlushFails(in)

FaultSpec == Init /\ [][FaultNext]_vars

(***************************************************************************)
(* One segment with a base_offset at the end of the 32-bit range: segments *)
(* holds the segment made by Segment::new(dir, base_offset, interval,      *)
(* true), disk its two files, calls the Segment::append_record calls and   *)
(* found the Segment::read_at call made on it.                             *)
(***************************************************************************)
WideBases == {0, U32_RANGE - 3, U32_RANGE}

WideInit ==
    /\ \E base_offset \in WideBases :
          /\ segments = <<SegmentNew(base_offset, TRUE)>>
          /\ disk = SegmentNewFiles(<<>>, base_offset)
    /\ active_segment_index = 0
    /\ pstate = "up"
    /\ now = 1
    /\ calls = <<>>
    /\ found = NoFind
    /\ restarts = 0
    /\ flushed = FALSE
    /\ clean_restart = FALSE
    /\ CodecIdle
    /\ DiscoveryIdle

\* Segment::append_record(key, value) on the segment; a panic ends the process.
WideAppend(in) ==
    /\ pstate = "up"
    /\ Len(calls) < MaxAppends
    /\ LET seg == segments[1]
           r == SegmentAppendRecord(seg, disk[seg.base_offset], in.key, in.value, now)
       IN
       /\ segments' = <<r.seg>>
       /\ disk' = [disk EXCEPT ![seg.base_offset] = r.file]
       /\ calls' = Append(calls, [key |-> in.key, value |-> in.value, status |-> r.status,
                                  offset |-> r.record.offset,
                                  timestamp |-> r.record.timestamp, epoch |-> restarts,
                                  flushes |-> r.flushes])
       /\ pstate' = IF r.status = "panic" THEN "panicked" ELSE pstate
    /\ now' = now + 1
    /\ found' = NoFind
    /\ UNCHANGED <<active_segment_index, restarts, flushed, clean_restart>>
    /\ UNCHANGED codecVars
    /\ UNCHANGED discoveryVars

\* Segment::read_at(offset) on the segment
WideReadAt(offset) ==
    /\ pstate = "up"
    /\ found = NoFind
    /\ LET seg == segments[1]
           r == SegmentReadAt(seg, disk[seg.base_offset], offset)
       IN
       /\ found' = [offset |-> offset, kind |-> r.kind, record |-> r.record,
                    decoded |-> r.decoded, routed |-> 1]
       /\ pstate' = IF r.kind = "panic" THEN "panicked" ELSE pstate
    /\ UNCHANGED <<disk, segments, active_segment_index, now, calls, restarts, flushed,
                   clean_restart>>
    /\ UNCHANGED codecVars
    /\ UNCHANGED discoveryVars

WideNext ==
    \/ \E in \in AppendInputs : WideAppend(in)
    \/ \E k \in 0..MaxFind : WideReadAt(segments[1].base_offset + k)

WideSpec == WideInit /\ [][WideNext]_vars

(***************************************************************************)
(* The file-backed segment (src/log/segment.rs): log and index are plain   *)
(* files opened by path on every call, created by the first write.  Here   *)
(* disk maps the names "log" and "index" to the bytes of the files that    *)
(* exist, segments holds the Segment struct, calls the append_record calls *)
(* and found the read_at call made on it.  The records are those of the    *)
(* codec above (offset, timestamp, key, value).                            *)
(***************************************************************************)
OFFSET_THRESHOLD == 10
MaxFileAppends == 21

\* IndexPosition has the layout of Position; its field offset is held in
\* relative_offset.
IndexPosition(offset, position) == Position(offset, position)

\* Segment::new: the struct; no file is created.
FileSegmentNew(active, starting_offset) ==
    [starting_offset |-> starting_offset, prev_offset |-> starting_offset,
     last_offset |-> starting_offset, active |-> active, size |-> 0]

\* The bytes of the file of that name, empty when open(create) makes it.
Created(d, name) == IF name \in DOMAIN d THEN d[name] ELSE <<>>

\* Segment::append_record: the record goes to the end of the log file; when
\* last_offset, already incremented, is OFFSET_THRESHOLD or more ahead of
\* prev_offset, an entry (last_offset, size before the write) goes to the end
\* of the index file.
FileAppendRecord(seg, d, key, value, timestamp) ==
    LET record == Record(seg.last_offset, timestamp, key, value)
        w == RecordWrite(record)
        logged == PutFile(d, "log", Created(d, "log") \o w.bytes)
        last_offset == seg.last_offset + 1
    IN
    IF last_offset - seg.prev_offset >= OFFSET_THRESHOLD
      THEN [seg |-> [seg EXCEPT !.last_offset = last_offset,
                                !.prev_offset = last_offset,
                                !.size = @ + w.ret],
            disk |-> PutFile(logged, "index",
                             Created(d, "index")
                               \o PositionWrite(IndexPosition(AsU32(last_offset),
                                                              AsU32(seg.size)))),
            record |-> record]
      ELSE [seg |-> [seg EXCEPT !.last_offset = last_offset, !.size = @ + w.ret],
            disk |-> logged,
            record |-> record]

Single(p) == [kind |-> "Single", begin |-> p, end |-> p]
Range(p, q) == [kind |-> "Range", begin |-> p, end |-> q]
SearchErr == [kind |-> "Err", begin |-> Position(0, 0), end |-> Position(0, 0)]

\* Segment::read_index: kind "Err" when the index file cannot be opened,
\* "panic" for positions[0] on an empty vector or a u32 subtraction below 0.
FileReadIndex(d, offset) ==
    IF "index" \notin DOMAIN d THEN SearchErr
    ELSE
      LET positions == Chunks(d["index"])
          keys == [i \in 1..Len(positions) |-> positions[i].relative_offset]
          off == BinarySearchLeft(keys, offset, 0, Len(positions))
      IN
      IF off = 0
        THEN IF Len(positions) = 0 \/ positions[1].relative_offset < OFFSET_THRESHOLD
               THEN FindPanic
               ELSE Range(IndexPosition(positions[1].relative_offset - OFFSET_THRESHOLD, 0),
                          positions[1])
        ELSE IF offset % OFFSET_THRESHOLD = 0 \/ off = Len(positions)
               THEN Single(positions[off])
               ELSE Range(positions[off], positions[off + 1])

\* The loop of the Range arm: offset_count records are decoded into a vector.
RECURSIVE ReadRecords(_, _)
ReadRecords(buf, offset_count) ==
    IF offset_count = 0 THEN [ok |-> TRUE, records |-> <<>>]
    ELSE LET d == FromBinary(buf) IN
         IF ~d.ok THEN [ok |-> FALSE, records |-> <<>>]
         ELSE LET rest == ReadRecords(SubSeq(buf, d.consumed + 1, Len(buf)),
                                      offset_count - 1)
              IN [ok |-> rest.ok, records |-> <<d.record>> \o rest.records]

\* Segment::read_at.  A seek behind the end of the file leaves nothing to read.
FileReadAt(seg, d, offset) ==
    LET sr == FileReadIndex(d, AsU32(offset))
        log == Created(d, "log")
        from(position) == SubSeq(log, position + 1, Len(log))
    IN
    IF sr.kind = "Err" THEN ReadErr
    ELSE IF sr.kind = "panic" THEN ReadPanic
    ELSE IF "log" \notin DOMAIN d THEN ReadErr
    ELSE IF sr.kind = "Single"
      THEN LET r == FromBinary(from(sr.begin.position)) IN
           IF ~r.ok THEN ReadErr
           ELSE IF r.record.offset = offset THEN ReadOk(r.record, 1)
           ELSE IF seg.size < sr.begin.position + binary_size(r.record) THEN ReadPanic
           ELSE ScanPunctual(SubSeq(log, sr.begin.position + r.consumed + 1, Len(log)),
                             seg.size - sr.begin.position - binary_size(r.record),
                             r.record, offset, 1)
      ELSE IF sr.end.relative_offset < sr.begin.relative_offset THEN ReadPanic
      ELSE LET offset_count == sr.end.relative_offset - sr.begin.relative_offset
               rs == ReadRecords(from(sr.begin.position), offset_count)
           IN IF ~rs.ok THEN ReadErr
              ELSE IF \E i \in 1..Len(rs.records) : rs.records[i].offset = offset
                THEN ReadOk(rs.records[CHOOSE i \in 1..Len(rs.records) :
                                          rs.records[i].offset = offset],
                            Len(rs.records))
                ELSE [ReadPanic EXCEPT !.decoded = Len(rs.records)]  \* "Offset not found"

\* Segment::new(dir, true, 0) in an empty directory
FileInit ==
    /\ segments = <<FileSegmentNew(TRUE, 0)>>
    /\ disk = <<>>
    /\ active_segment_index = 0
    /\ pstate = "up"
    /\ now = 1
    /\ calls = <<>>
    /\ found = NoFind
    /\ restarts = 0
    /\ flushed = FALSE
    /\ clean_restart = FALSE
    /\ CodecIdle
    /\ DiscoveryIdle

\* segment.append_record(Some("key"), &[i, 0, 0]), i the number of the call
FileAppend ==
    /\ pstate = "up"
    /\ Len(calls) < MaxFileAppends
    /\ LET key == Some(<<107, 101, 121>>)
           value == <<Len(calls), 0, 0>>
           r == FileAppendRecord(segments[1], disk, key, value, now)
       IN
       /\ segments' = <<r.seg>>
       /\ disk' = r.disk
       /\ calls' = Append(calls, [key |-> key, value |-> value, status |-> "Ok",
                                  offset |-> r.record.offset,
                                  timestamp |-> r.record.timestamp, epoch |-> restarts,
                                  flushes |-> <<"log">>])
    /\ now' = now + 1
    /\ found' = NoFind
    /\ UNCHANGED <<active_segment_index, pstate, restarts, flushed, clean_restart>>
    /\ UNCHANGED codecVars
    /\ UNCHANGED discoveryVars

\* segment.read_at(offset)
FileRead(offset) ==
    /\ pstate = "up"
    /\ found = NoFind
    /\ LET r == FileReadAt(segments[1], disk, offset) IN
       /\ found' = [offset |-> offset, kind |-> r.kind, record |-> r.record,
                    decoded |-> r.decoded, routed |-> 1]
       /\ pstate' = IF r.kind = "panic" THEN "panicked" ELSE pstate
    /\ UNCHANGED <<disk, segments, active_segment_index, now, calls, restarts, flushed,
                   clean_restart>>
    /\ UNCHANGED codecVars
    /\ UNCHANGED discoveryVars

FileNext ==
    \/ FileAppend
    \/ \E offset \in 0..Len(calls) : FileRead(offset)

FileSpec == FileInit /\ [][FileNext]_vars

(***************************************************************************)
(* Properties                                                              *)
(***************************************************************************)
\* The records of the append calls that returned Ok, in call order.
OkCalls == SelectSeq(calls, LAMBDA c : c.status = "Ok")
CallRecord(c) == Record(c.offset, c.timestamp, c.key, c.value)

\* The records held in the live prefix [0, log.size) of a log file.
RECURSIVE DecodeAll(_)
DecodeAll(buf) ==
    LET d == FromBinary(buf) IN
    IF d.ok THEN <<d.record>> \o DecodeAll(SubSeq(buf, d.consumed + 1, Len(buf)))
    ELSE <<>>

RECURSIVE StoredRecords(_, _)
StoredRecords(segs, d) ==
    IF segs = <<>> THEN <<>>
    ELSE DecodeAll(SubSeq(d[Head(segs).base_offset].log, 1, Head(segs).log.size))
           \o StoredRecords(Tail(segs), d)

\* C1: on a fresh partition with no restart, the k-th successful append
\* (0-indexed) is given offset k and is stored with that offset: across any
\* number of roll-overs, the records held by the segments' logs, in segment
\* order, are exactly the appended records with offsets 0, 1, 2, ...
C1_FreshOffsets ==
    restarts = 0 =>
      LET stored == StoredRecords(segments, disk) IN
      /\ Len(stored) = Len(OkCalls)
      /\ \A k \in 1..Len(OkCalls) :
            /\ OkCalls[k].offset = k - 1
            /\ stored[k] = CallRecord(OkCalls[k])

\* C1 witness: appends without a restart that rolled over twice.
C1_Witness ==
    /\ restarts = 0
    /\ Len(segments) >= 3
    /\ Len(OkCalls) = MaxAppends
    /\ StoredRecords(segments, disk)[Len(OkCalls)].offset = Len(OkCalls) - 1

\* C2: read-your-writes: with no restart, find_record(k) for k below the
\* number of appended records returns Ok with exactly the k-th appended
\* record (offset, key, value, timestamp).
C2_ReadYourWrites ==
    (restarts = 0 /\ found.kind # "none" /\ found.offset < Len(OkCalls)) =>
      /\ found.kind = "Ok"
      /\ found.record = CallRecord(OkCalls[found.offset + 1])

\* C3: restart durability: after appends, a flush, a drop and a re-init, and
\* nothing appended since, find_record(k) returns the k-th appended record.
C3_RestartDurability ==
    (/\ restarts >= 1
     /\ clean_restart
     /\ \A i \in 1..Len(calls) : calls[i].epoch = 0 /\ calls[i].status = "Ok"
     /\ found.kind # "none"
     /\ found.offset < Len(OkCalls)) =>
      /\ found.kind = "Ok"
      /\ found.record = CallRecord(OkCalls[found.offset + 1])

\* C4: in every reachable state, restarts included, the offsets given to the
\* appended records are the gap-free sequence 0, 1, 2, ...: an append after a
\* re-init gets the number of records appended before it.
C4_GapFree ==
    \A k \in 1..Len(OkCalls) : OkCalls[k].offset = k - 1

\* C5: over appends, roll-overs and restarts, every successful append gets an
\* offset strictly greater than that of every record appended before it.
C5_StrictlyIncreasing ==
    \A i, j \in 1..Len(OkCalls) : i < j => OkCalls[i].offset < OkCalls[j].offset

\* C5 witness: records appended before a restart and a record appended after.
C5_Witness ==
    /\ restarts >= 1
    /\ Len(OkCalls) >= 3
    /\ OkCalls[1].epoch = 0
    /\ OkCalls[Len(OkCalls)].epoch = 1
    /\ Len(segments) >= 3

\* C6: codec round trip: decoding the bytes written for a record r gives a
\* record equal to r, whatever its key (absent, empty or not) and value.
C6_RoundTrip ==
    c_pc = "read" => (c_out.ok /\ c_out.record = c_rec)

\* C7: write puts exactly 8 + 16 + 4 + key_len + 4 + value_len bytes into the
\* sink and returns that number, and decoding a source that starts with those
\* bytes takes exactly that many, leaving what follows the record untouched.
C7_SelfDelimiting ==
    LET size == 8 + 16 + 4 + (IF c_rec.key.some THEN Len(c_rec.key.bytes) ELSE 0)
                  + 4 + Len(c_rec.value)
    IN
    /\ c_pc # "new" => (Len(c_enc) = size /\ c_ret = size)
    /\ c_pc = "read" =>
         /\ c_out.ok
         /\ c_out.consumed = size
         /\ SubSeq(c_buf, c_out.consumed + 1, Len(c_buf)) = c_tail

\* C7 witness: a keyed record followed by another record was decoded.
C7_Witness ==
    /\ c_pc = "read"
    /\ c_out.ok
    /\ c_rec.key.some /\ Len(c_rec.key.bytes) = 2
    /\ Len(c_tail) > 2
    /\ FromBinary(SubSeq(c_buf, c_out.consumed + 1, Len(c_buf))).ok

\* C8: decoding a strict prefix of a record's encoding fails.
C8_TruncatedFails ==
    c_pc = "read_truncated" => ~c_out.ok

\* C8 witness: a source cut inside the value of a keyed record was decoded.
C8_Witness ==
    /\ c_pc = "read_truncated"
    /\ c_rec.key.some /\ Len(c_rec.key.bytes) = 2 /\ Len(c_rec.value) = 2
    /\ Len(c_buf) = Len(c_enc) - 1

\* C9: every segment's log.size is at most max_size, fresh, after appends
\* and roll-overs and after a re-init, and no append writes at or beyond
\* max_size: no log file outgrows max_size and no append runs into the
\* bounds check of the map.
C9_Capacity ==
    /\ \A i \in 1..Len(segments) : segments[i].log.size <= MaxSize
    /\ \A stem \in DOMAIN disk : Len(disk[stem].log) = MaxSize
    /\ \A i \in 1..Len(calls) : calls[i].status # "out_of_bounds"

\* C9 witness: before any restart, appends filled the active segment to the
\* last byte, after an earlier roll-over.
C9_Witness ==
    /\ restarts = 0
    /\ Len(segments) >= 2
    /\ active_segment(segments, active_segment_index).log.size = MaxSize
    /\ calls[Len(calls)].status = "Ok"

\* A step that is one Partition::append_record call, and whether it rolled.
AppendStep == Len(calls') = Len(calls) + 1
Rolled == Len(segments') = Len(segments) + 1

\* The roll-over rule of an append step; with alwaysWritten the record is
\* required to be written on every roll, without it only when it can fit in
\* an empty segment.
RollRule(alwaysWritten) ==
    LET c == calls'[Len(calls')]
        old == active_segment(segments, active_segment_index)
        new == segments'[Len(segments')]
        size == binary_size(Record(0, 0, c.key, c.value))
        first == FromBinary(disk'[new.base_offset].log)
    IN
    /\ Rolled <=> size > MaxSize - old.log.size
    /\ ~Rolled => c.status = "Ok" /\ active_segment_index' = active_segment_index
    /\ Rolled =>
         /\ new.base_offset = latest_offset(old)
         /\ ~segments'[active_segment_index + 1].active
         /\ \A i \in 1..Len(segments) : segments'[i].base_offset = segments[i].base_offset
         /\ active_segment_index' = Len(segments') - 1
         /\ new.active
         /\ IF alwaysWritten \/ size <= MaxSize
              THEN /\ c.status = "Ok"
                   /\ c.offset = new.base_offset
                   /\ new.log.size = size
                   /\ latest_offset(new) = new.base_offset + 1
                   /\ first.ok /\ first.record = CallRecord(c)
              ELSE /\ c.status = "fatal"
                   /\ new.log.size = 0

\* C10 as claimed: append_record rolls exactly when the record's binary_size
\* exceeds max_size - size of the active segment, and on every roll the new
\* tail segment starts at the old one's latest_offset, the old one is sealed
\* and the record is written as the first record of the new segment.
C10_RollOver == [][AppendStep => RollRule(TRUE)]_vars

\* C10 amended: the same, the record being written as the first record of
\* the new segment when its binary_size is at most max_size; a larger record
\* ends the call fatally after the roll, nothing written.
C10_RollOverFitting == [][AppendStep => RollRule(FALSE)]_vars

\* C10 witness: an append that found the active segment exactly full rolled
\* and its record is the first of the new tail segment.
C10_Witness ==
    /\ Len(segments) >= 2
    /\ restarts = 0
    /\ segments[Len(segments) - 1].log.size = MaxSize
    /\ calls[Len(calls)].status = "Ok"
    /\ calls[Len(calls)].offset = segments[Len(segments)].base_offset
    /\ latest_offset(segments[Len(segments)]) = segments[Len(segments)].base_offset + 1

\* C11: in every reachable state, restarts included, an append of a record
\* whose binary_size is at most max_size returns Ok however full the active
\* segment is, and no call ends with the FullSegment signal as its result (an
\* append ends Ok, or fatally for a record no segment can hold).
C11_FittingAppendOk ==
    \A i \in 1..Len(calls) :
        /\ calls[i].status \in {"Ok", "fatal", "out_of_bounds"}
        /\ binary_size(CallRecord(calls[i])) <= MaxSize => calls[i].status = "Ok"

\* C11 witness: after a re-init, an append on a full active segment rolled
\* and returned Ok.
C11_Witness ==
    /\ restarts >= 1
    /\ Len(calls) >= 2
    /\ calls[Len(calls)].epoch = restarts
    /\ calls[Len(calls)].status = "Ok"
    /\ calls[Len(calls)].offset = segments[Len(segments)].base_offset
    /\ segments[Len(segments) - 1].log.size = MaxSize

\* C12: in every reachable state exactly one segment has active = TRUE and it
\* is the tail segment; every other segment has active = FALSE.
C12_OneActiveTail ==
    /\ segments[Len(segments)].active
    /\ \A i \in 1..(Len(segments) - 1) : ~segments[i].active

\* C13: on a live partition, every offset o in [0, latest_offset) lies in
\* exactly one segment S (S.base_offset <= o, and o below the next segment's
\* base_offset or S last), find_record(o) reads from that S, and a
\* find_record that ran on such an offset was routed there.
Covers(i, o) ==
    /\ segments[i].base_offset <= o
    /\ i < Len(segments) => o < segments[i + 1].base_offset

C13_Coverage ==
    pstate = "up" =>
      LET latest == latest_offset(active_segment(segments, active_segment_index)) IN
      /\ \A o \in 0..(latest - 1) :
            /\ Cardinality({i \in 1..Len(segments) : Covers(i, o)}) = 1
            /\ Covers(PartitionRoute(segments, active_segment_index, o), o)
      /\ (found.kind # "none" /\ found.offset < latest) => Covers(found.routed, found.offset)

\* C13 witness: with three segments, a find_record was routed to the middle
\* one for an offset that is not its base_offset.
C13_Witness ==
    /\ pstate = "up"
    /\ Len(segments) >= 3
    /\ found.kind # "none"
    /\ found.routed = 2
    /\ found.offset > segments[2].base_offset
    /\ found.offset < segments[3].base_offset

\* The successful appends whose records went to the segment files of stem:
\* those with an offset from stem up to the next stem of the directory.
SegmentCalls(stem) ==
    SelectSeq(OkCalls, LAMBDA c :
        /\ stem <= c.offset
        /\ \A s \in DOMAIN disk : s > stem => c.offset < s)

\* The byte position at which the record after the first n of cs starts.
RECURSIVE StartOf(_, _)
StartOf(cs, n) ==
    IF n = 0 THEN 0 ELSE StartOf(cs, n - 1) + binary_size(CallRecord(cs[n]))

\* The segment an append step wrote to, before (prev_offset, index size) and
\* after the step; a segment made by a roll starts with prev_offset =
\* base_offset and an empty index.
SamplingRule ==
    LET c == calls'[Len(calls')]
        old == active_segment(segments, active_segment_index)
        w == segments'[Len(segments')]
        prev0 == IF Rolled THEN w.base_offset ELSE old.prev_offset
        size0 == IF Rolled THEN 0 ELSE old.index.size
        added == w.index.size # size0
    IN
    c.status = "Ok" =>
      /\ added <=> (c.offset - prev0 >= OffsetInterval)
      /\ added => /\ w.index.size = size0 + ENTRY_SIZE
                  /\ w.prev_offset = c.offset
                  /\ Len(disk'[w.base_offset].index) = w.index.size
      /\ ~added => w.prev_offset = prev0

\* The index file of every segment holds one entry per full interval of the
\* records appended to it: relative offsets I, 2I, 3I, ..., each with the byte
\* position at which that record starts.
SampledEntries ==
    \A stem \in DOMAIN disk :
        LET cs == SegmentCalls(stem)
            entries == Chunks(disk[stem].index)
        IN
        /\ Len(disk[stem].index) = ENTRY_SIZE * Len(entries)
        /\ Len(entries) = IF Len(cs) = 0 THEN 0 ELSE (Len(cs) - 1) \div OffsetInterval
        /\ \A k \in 1..Len(entries) :
              entries[k] = Position(k * OffsetInterval, StartOf(cs, k * OffsetInterval))

\* C14: index sampling: Segment.append_record on a segment created fresh adds
\* an index entry exactly when last_offset - prev_offset >= I and then sets
\* prev_offset = last_offset; hence the entries have relative offsets I, 2I,
\* 3I, ..., and after I + 1 appends the index holds exactly one entry
\* (relative_offset I, position = byte offset of record I + 1).
C14_IndexSampling ==
    /\ []SampledEntries
    /\ [][AppendStep => SamplingRule]_vars

\* C14 witness: a segment that took I + 1 records and whose index file holds
\* exactly one entry.
C14_Witness ==
    \E stem \in DOMAIN disk :
        /\ Len(SegmentCalls(stem)) = OffsetInterval + 1
        /\ Len(disk[stem].index) = ENTRY_SIZE
        /\ Chunks(disk[stem].index)[1].relative_offset = OffsetInterval
        /\ Chunks(disk[stem].index)[1].position > 0

\* C15: index accuracy: in every reachable state, for every entry (r, p) of a
\* segment's index the record that starts at byte p of the segment's log has
\* offset base_offset + r, and the entries are strictly increasing in
\* relative_offset and in position.
C15_IndexAccuracy ==
    \A stem \in DOMAIN disk :
        LET entries == Chunks(disk[stem].index)
            log == disk[stem].log
        IN
        /\ \A k \in 1..Len(entries) :
              LET d == FromBinary(SubSeq(log, entries[k].position + 1, Len(log))) IN
              /\ entries[k].position < Len(log)
              /\ d.ok
              /\ d.record.offset = stem + entries[k].relative_offset
        /\ \A j, k \in 1..Len(entries) :
              j < k => /\ entries[j].relative_offset < entries[k].relative_offset
                       /\ entries[j].position < entries[k].position

\* C15 witness: a segment with base_offset above 0 whose index holds an entry,
\* and a segment whose index holds two.
C15_Witness ==
    /\ \E stem \in DOMAIN disk : stem > 0 /\ Len(disk[stem].index) >= ENTRY_SIZE

\* The offsets that were given to appended records.
Assigned == {OkCalls[k].offset : k \in 1..Len(OkCalls)}

\* C16: find_record(o) for an offset that was never assigned returns an error
\* value: it does not panic and does not return a record.
C16_FindUnassignedErr ==
    (found.kind # "none" /\ found.offset \notin Assigned) => found.kind = "Err"

\* C17: Partition::init on a log directory holding a file whose stem is not a
\* u64 produces no partition and fails with a plain error, not a panic.
C17_NotCompliantIsError ==
    (i_pc = "done" /\ \E f \in i_dir : ~ParseU64(f.stem).ok) => i_out.kind = "Err"

\* The range the claim describes for rel on the samples of a non-empty index.
ClaimedRange(entries, rel) ==
    IF rel < entries[1].relative_offset
      THEN [begin |-> Position(0, 0), end |-> entries[1]]
      ELSE LET k == CHOOSE j \in 1..Len(entries) :
                        /\ entries[j].relative_offset <= rel
                        /\ \A m \in 1..Len(entries) :
                              entries[m].relative_offset <= rel => m <= j
           IN [begin |-> entries[k],
               end |-> IF k < Len(entries) THEN entries[k + 1] ELSE entries[k]]

\* C18: Index.find_offset(target) on a non-empty index, rel = target -
\* base_offset: below the first sample it returns begin = (0, 0) and end = the
\* first sample; otherwise begin is the sample with the greatest
\* relative_offset <= rel and end the sample after begin if there is one,
\* else begin.
C18_FindOffsetRange ==
    \A i \in 1..Len(segments) :
        LET seg == segments[i]
            bytes == disk[seg.base_offset].index
        IN
        (seg.index.size > 0 /\ Len(bytes) = seg.index.size) =>
          \A rel \in 0..MaxFind :
              LET fr == IndexFindOffset(seg.index, bytes, seg.base_offset + rel)
                  claimed == ClaimedRange(Chunks(bytes), rel)
              IN
              /\ fr.kind # "panic"
              /\ fr.begin = claimed.begin
              /\ fr.end = claimed.end

\* The hint Index.find_offset gives for the record of the successful append c
\* in the segment segments[i] that holds it.
HintOk(i, c) ==
    LET seg == segments[i]
        cs == SegmentCalls(seg.base_offset)
        rel == c.offset - seg.base_offset
        fr == IndexFindOffset(seg.index, disk[seg.base_offset].index, c.offset)
        start == StartOf(cs, rel)
    IN
    /\ fr.kind # "panic"
    /\ fr.begin.relative_offset <= rel
    /\ \E n \in 0..(Len(cs) - 1) : StartOf(cs, n) = fr.begin.position
    /\ fr.begin.position <= start
    /\ start <= (IF fr.end = fr.begin THEN seg.log.size ELSE fr.end.position)

\* C19: hint correctness: for every offset stored in a segment the range of
\* Index.find_offset has begin.relative_offset <= target - base_offset,
\* begin.position is the first byte of a record of the log, and the target
\* record starts within [begin.position, end.position], or within
\* [begin.position, log.size] when end = begin.
C19_HintCorrect ==
    \A k \in 1..Len(OkCalls) :
        \A i \in 1..Len(segments) :
            Covers(i, OkCalls[k].offset) => HintOk(i, OkCalls[k])

\* C19 witness: a find_record ran on a stored offset that lies between two
\* samples of its segment's index.
C19_Witness ==
    /\ found.kind # "none"
    /\ found.offset \in Assigned
    /\ LET seg == segments[found.routed]
           fr == IndexFindOffset(seg.index, disk[seg.base_offset].index, found.offset)
       IN /\ fr.kind = "Around"
          /\ fr.begin.position > 0
          /\ fr.end.position > fr.begin.position

\* The effect of Log.append_record in an append step that returned Ok, on the
\* log that took the record: size0, cur0 and file0 are its size, its
\* current_offset and its file before the write.
LogAppendEffect ==
    LET c == calls'[Len(calls')]
        old == active_segment(segments, active_segment_index)
        w == segments'[Len(segments')]
        base == w.base_offset
        log0 == IF Rolled THEN LogNew(base) ELSE old.log
        file0 == IF Rolled THEN SetLen(FileOf(disk, base).log, MaxSize) ELSE disk[base].log
        file1 == disk'[base].log
        buf == RecordWrite(CallRecord(c)).bytes
        len == binary_size(CallRecord(c))
        entries == Chunks(disk'[base].index)
        entries0 == IF Rolled THEN <<>> ELSE Chunks(disk[base].index)
    IN
    c.status = "Ok" =>
      /\ can_fit(log0, len)
      /\ SubSeq(file1, log0.size + 1, log0.size + len) = buf
      /\ SubSeq(file1, 1, log0.size) = SubSeq(file0, 1, log0.size)
      /\ Len(file1) = Len(file0)
      /\ w.log.size = log0.size + len
      /\ w.log.current_offset = log0.current_offset + 1
      /\ c.offset = log0.current_offset
      /\ Len(entries) > Len(entries0) =>
            entries[Len(entries)] = Position(log0.current_offset - base, log0.size)

\* C20: Log.append_record(buf) on a log that can fit buf writes buf at bytes
\* [size, size + len(buf)), returns (current_offset, size) as they were before
\* the call, adds len(buf) to size and 1 to current_offset, and leaves the
\* bytes written before unchanged.
C20_LogAppend == [][AppendStep => LogAppendEffect]_vars

\* C20 witness: an append wrote a record behind earlier ones and its returned
\* position went into a new index entry.
C20_Witness ==
    /\ Len(calls) >= 3
    /\ calls[Len(calls)].status = "Ok"
    /\ LET a == active_segment(segments, active_segment_index) IN
       /\ a.base_offset > 0
       /\ a.index.size > 0
       /\ a.prev_offset = calls[Len(calls)].offset
       /\ a.log.size < MaxSize

\* A state in which every segment of the partition was loaded from disk by
\* the last Partition::init and nothing was appended since.
JustLoaded ==
    /\ restarts >= 1
    /\ pstate = "up"
    /\ \A k \in 1..Len(calls) : calls[k].epoch < restarts

\* C21: recovery count: after load_from_disk of a segment file to which n
\* records were appended before the restart, current_offset = base_offset + n:
\* nothing decoded from the zero padding is counted.
C21_RecoveryCount ==
    JustLoaded =>
      \A i \in 1..Len(segments) :
          latest_offset(segments[i]) =
              segments[i].base_offset + Len(SegmentCalls(segments[i].base_offset))

\* C22: in every reachable state, after a re-init too, each segment's log.size
\* is the number of bytes of the records appended to it, not the length of
\* the preallocated file.
C22_SizeIsLiveData ==
    \A i \in 1..Len(segments) :
        LET cs == SegmentCalls(segments[i].base_offset) IN
        segments[i].log.size = StartOf(cs, Len(cs))

\* C23: in every reachable state of every segment, fresh, appended to or
\* loaded from disk, prev_offset is the absolute offset of the index entry
\* written last, or base_offset when the index has no entry.
C23_PrevOffset ==
    \A i \in 1..Len(segments) :
        LET seg == segments[i]
            entries == Chunks(disk[seg.base_offset].index)
        IN
        seg.prev_offset =
            IF Len(entries) = 0 THEN seg.base_offset
            ELSE seg.base_offset + entries[Len(entries)].relative_offset

\* Whether the append step added an index entry, against the distance from
\* prev_offset (before the step) to the log's next offset after the append
\* (byNext) or to the offset of the record just written (~byNext).
EntryRule(byNext) ==
    LET c == calls'[Len(calls')]
        old == active_segment(segments, active_segment_index)
        w == segments'[Len(segments')]
        prev0 == IF Rolled THEN w.base_offset ELSE old.prev_offset
        size0 == IF Rolled THEN 0 ELSE old.index.size
        reached == IF byNext THEN latest_offset(w) ELSE latest_offset(w) - 1
    IN
    c.status = "Ok" =>
      ((w.index.size = size0 + ENTRY_SIZE) <=> (reached - prev0 >= OffsetInterval))

\* C24 as claimed: after each successful Segment.append_record an index entry
\* was appended by the call iff current_offset - prev_offset >= I, with
\* current_offset the log's next offset after the append and prev_offset the
\* value before the call.
C24_EntryIffNextOffset == [][AppendStep => EntryRule(TRUE)]_vars

\* C24 amended: an entry was appended iff last_offset - prev_offset >= I, with
\* last_offset the offset of the record just written (current_offset - 1
\* after the append).
C24_EntryIffLastOffset == [][AppendStep => EntryRule(FALSE)]_vars

\* C24 witness: the append of record I of a fresh first segment added the
\* first index entry.
C24_Witness ==
    /\ restarts = 0
    /\ Len(segments) = 1
    /\ Len(calls) = OffsetInterval + 1
    /\ calls[Len(calls)].status = "Ok"
    /\ calls[Len(calls)].offset = OffsetInterval
    /\ segments[1].index.size = ENTRY_SIZE
    /\ segments[1].prev_offset = OffsetInterval

\* The appended record that was given the offset o.
RecordAt(o) ==
    CallRecord(OkCalls[CHOOSE k \in 1..Len(OkCalls) : OkCalls[k].offset = o])

\* C25: when the index of the segment has no entry, Index.find_offset returns
\* begin = end = (0, 0) and Segment.read_at scans the log from byte 0 up to
\* log.size, returning the target's record for every target stored in the
\* segment.
C25_EmptyIndexScan ==
    (/\ found.kind # "none"
     /\ found.offset \in Assigned
     /\ segments[found.routed].index.size = 0) =>
      LET seg == segments[found.routed]
          fr == IndexFindOffset(seg.index, disk[seg.base_offset].index, found.offset)
      IN
      /\ fr.begin = Position(0, 0)
      /\ fr.end = Position(0, 0)
      /\ found.kind = "Ok"
      /\ found.record = RecordAt(found.offset)

Content(seg) == [seg EXCEPT !.active = FALSE]

\* What a step of append_record, find_record or flush leaves alone: every
\* segment that is not the tail, with its files, and the tail too when the
\* step makes it a sealed one; the sequence only grows at its end.
SealedFrozen ==
    restarts' = restarts =>
      /\ Len(segments') >= Len(segments)
      /\ Len(segments') <= Len(segments) + 1
      /\ \A i \in 1..(Len(segments) - 1) :
            /\ segments'[i] = segments[i]
            /\ disk'[segments[i].base_offset] = disk[segments[i].base_offset]
      /\ Rolled =>
            LET n == Len(segments) IN
            /\ Content(segments'[n]) = Content(segments[n])
            /\ segments'[n + 1].base_offset > segments[n].base_offset =>
                  disk'[segments[n].base_offset] = disk[segments[n].base_offset]

\* C27: sealed segments are frozen: once a segment is not the tail, no
\* append_record, find_record or flush changes its log bytes, log.size,
\* current_offset, prev_offset, index entries or base_offset, and no segment
\* is removed from or moved within the segment sequence.
C27_SealedFrozen == [][SealedFrozen]_vars

\* C27 witness: with two sealed segments behind the tail, after further
\* appends, a find_record read from the first one.
C27_Witness ==
    /\ restarts = 0
    /\ Len(segments) >= 3
    /\ latest_offset(segments[3]) > segments[3].base_offset + 1
    /\ found.kind # "none"
    /\ found.routed = 1
    /\ ~segments[1].active /\ ~segments[2].active

\* C28: segment state machine: a segment takes appends only while active;
\* Segment.append_record on a sealed segment appends nothing (its log, its
\* index and its files stay as they are), and no step makes a sealed segment
\* active again.
SealedReadOnly ==
    ~segments[1].active =>
      /\ ~segments'[1].active
      /\ AppendStep => (segments'[1] = segments[1] /\ disk' = disk)

C28_SealedReadOnly == [][SealedReadOnly]_vars

\* An append step for a record that no segment can hold: one roll, then the
\* fatal end of the call, with no byte of the record in any file.
OversizeRule ==
    LET c == calls'[Len(calls')]
        new == segments'[Len(segments')]
    IN
    binary_size(Record(0, 0, c.key, c.value)) > MaxSize =>
      /\ c.status = "fatal"
      /\ pstate' = "panicked"
      /\ Rolled
      /\ new.log.size = 0
      /\ latest_offset(new) = new.base_offset
      /\ \A s \in DOMAIN disk : disk'[s] = disk[s]
      /\ \A s \in (DOMAIN disk') \ (DOMAIN disk) :
            disk'[s] = [log |-> Zeros(MaxSize), index |-> <<>>]

\* C29: Partition.append_record of a record whose binary_size exceeds
\* max_size rolls over exactly once and then ends fatally: it does not
\* return Ok and writes no byte of the record.
C29_OversizeFatal == [][AppendStep => OversizeRule]_vars

\* C29 witness: after records were appended and a segment was rolled, an
\* append of an oversize record rolled once more and ended fatally.
C29_Witness ==
    /\ Len(calls) >= 3
    /\ calls[Len(calls)].status = "fatal"
    /\ calls[Len(calls) - 1].status = "Ok"
    /\ Len(segments) >= 3
    /\ pstate = "panicked"
    /\ segments[Len(segments)].log.size = 0

\* C30: an error other than FullSegment reaches the caller of
\* Partition.append_record as an error value on both paths: every call in
\* which the segment append met an I/O error, on the first attempt or on the
\* retry after a roll, returned Err.
C30_IoErrorPropagates ==
    \A k \in 1..Len(calls) :
        calls[k].status \in {"Err(Io)", "panic(Io)"} => calls[k].status = "Err(Io)"

\* C31: Segment.append_record does not itself request a flush of the log or
\* of the index: no append call made a flush request; flushes are requested
\* only by Partition.flush, on the active segment.
C31_NoFlushPerRecord ==
    \A k \in 1..Len(calls) : calls[k].flushes = <<>>

\* C32: Partition::init on an empty log directory yields a partition with
\* exactly one segment, which is active and has base_offset 0, log.size 0,
\* current_offset 0, prev_offset 0 and an empty index.
C32_InitEmptyDirectory ==
    (restarts = 0 /\ calls = <<>>) =>
      /\ Len(segments) = 1
      /\ active_segment_index = 0
      /\ segments[1].active
      /\ segments[1].base_offset = 0
      /\ segments[1].log.size = 0
      /\ segments[1].log.current_offset = 0
      /\ segments[1].prev_offset = 0
      /\ segments[1].index.size = 0
      /\ DOMAIN disk = {0}
      /\ disk[0].index = <<>>

\* C32 witness: the partition made by init on the empty directory, its two
\* files created, before anything was appended.
C32_Witness ==
    /\ restarts = 0
    /\ calls = <<>>
    /\ pstate = "up"
    /\ Len(segments) = 1
    /\ disk[0] = [log |-> Zeros(MaxSize), index |-> <<>>]

\* C33: in every reachable state the segment sequence is non-empty and sorted
\* in ascending base_offset order, and the segment that takes appends and
\* flushes, segments[active_segment_index], is its last element: after init
\* on an empty directory, after init on a directory with any number of
\* segment files (one segment per distinct stem) and after every roll-over.
C33_SortedActiveLast ==
    /\ Len(segments) >= 1
    /\ \A i \in 1..(Len(segments) - 1) :
          /\ segments[i].base_offset <= segments[i + 1].base_offset
          /\ pstate = "up" => segments[i].base_offset < segments[i + 1].base_offset
    /\ active_segment_index = Len(segments) - 1
    /\ JustLoaded =>
          /\ Len(segments) = Cardinality(DOMAIN disk)
          /\ {segments[i].base_offset : i \in 1..Len(segments)} = DOMAIN disk

\* C33 witness: a partition loaded from a directory of three segments rolled
\* over on the first append after the re-init.
C33_Witness ==
    /\ restarts >= 1
    /\ pstate = "up"
    /\ Len(segments) >= 4
    /\ calls[Len(calls)].epoch = restarts
    /\ calls[Len(calls)].status = "Ok"
    /\ calls[Len(calls)].offset = segments[Len(segments)].base_offset

\* C34: for every record of every segment, the relative offset used when an
\* index entry is written and when a target is looked up is offset -
\* base_offset, with no wrap-around, also when the offset or the base_offset
\* does not fit in 32 bits: no append fails on the subtraction, every index
\* entry (r, p) points at the record with offset base_offset + r, and the
\* lookup of every stored offset runs and starts at or before it.
C34_RelativeOffsetExact ==
    LET seg == segments[1]
        base == seg.base_offset
        file == disk[base]
        entries == Chunks(file.index)
    IN
    /\ \A k \in 1..Len(calls) : calls[k].status # "panic"
    /\ \A k \in 1..Len(entries) :
          LET d == FromBinary(SubSeq(file.log, entries[k].position + 1, Len(file.log))) IN
          d.ok /\ d.record.offset = base + entries[k].relative_offset
    /\ \A o \in base..(latest_offset(seg) - 1) :
          LET fr == IndexFindOffset(seg.index, file.index, AsU32(o)) IN
          /\ fr.kind # "panic"
          /\ fr.begin.relative_offset <= o - base
    /\ (found.kind # "none" /\ found.offset < latest_offset(seg)) => found.kind # "panic"

\* C35: whenever find_record(o) returns Ok(record), record.offset = o: a
\* lookup of an offset that is not stored never returns another record, such
\* as the last record of the segment.
C35_OkIsTarget ==
    found.kind = "Ok" => found.record.offset = found.offset

\* A step that is one Segment::append_record call on the segment and ended
\* with FullSegment leaves the segment and its two files as they were.
FullSegmentFrame ==
    (AppendStep /\ calls'[Len(calls')].status = "FullSegment") =>
      /\ segments' = segments
      /\ disk' = disk

\* C36: when Segment.append_record returns FullSegment the segment is left
\* unchanged: no byte of the log is written, and log.size, current_offset,
\* prev_offset and the index are the same as before the call.
C36_FullSegmentUnchanged == [][FullSegmentFrame]_vars

\* C36 witness: a segment holding records, with an index entry, refused a
\* record that did not fit in what was left of it.
C36_Witness ==
    /\ Len(calls) >= 2
    /\ calls[Len(calls)].status = "FullSegment"
    /\ binary_size(CallRecord(calls[Len(calls)])) <= MaxSize
    /\ segments[1].log.size > 0
    /\ segments[1].index.size > 0
    /\ latest_offset(segments[1]) = calls[Len(calls)].offset

\* C37: for the file-backed segment, after any n appends to a new segment
\* with starting_offset 0, read_at(k) returns Ok with the record whose offset
\* is k for every k in [0, n), and does not panic with "Offset not found".
C37_FileReadAt ==
    (found.kind # "none" /\ found.offset < Len(calls)) =>
      /\ found.kind = "Ok"
      /\ found.record = CallRecord(calls[found.offset + 1])

====
